---- MODULE Spec2Model ----
(***************************************************************************)
(* Model of the hospital data pipeline:                                    *)
(*   - DataNormalizer  (scripts/2_normalisation.py): the Canonicalizer     *)
(*   - Enricher        (scripts/3_enrichissement_llm.py): the enrichment   *)
(*     orchestrator with its caches, checkpoint and output tables.         *)
(*                                                                         *)
(* Text cells are sequences of one-character strings; the absent cell      *)
(* (Python None / pandas NaN in an object column) is the value None.       *)
(* Row labels (pandas index) and list positions are 1-based here where     *)
(* Python is 0-based; checkpoint indexes keep Python's 0-based values.     *)
(***************************************************************************)
EXTENDS Integers, Sequences, FiniteSets, TLC

(***************************************************************************)
(* Bounds of the model.                                                    *)
(***************************************************************************)
\* Largest number of raw facility rows (gov rows followed by osm rows).
MaxRows == 3

(***************************************************************************)
(* Text helpers.                                                           *)
(***************************************************************************)
None == <<"<None>">>

IsSpace(c) == c \in {" ", "\t", "\n"}

UpperCase == <<"A","B","C","D","E","F","G","H","I","J","K","L","M",
               "N","O","P","Q","R","S","T","U","V","W","X","Y","Z">>
LowerCase == <<"a","b","c","d","e","f","g","h","i","j","k","l","m",
               "n","o","p","q","r","s","t","u","v","w","x","y","z">>

IsUpper(c) == \E i \in DOMAIN UpperCase : UpperCase[i] = c
IsDigit(c) == c \in {"0","1","2","3","4","5","6","7","8","9"}

\* str.lower(), on the ASCII letters.
Lower(c) ==
    IF IsUpper(c) THEN LowerCase[CHOOSE i \in DOMAIN UpperCase : UpperCase[i] = c] ELSE c

LowerStr(s) == [i \in DOMAIN s |-> Lower(s[i])]

RECURSIVE LStrip(_)
LStrip(s) ==
    IF s = <<>> THEN <<>>
    ELSE IF IsSpace(Head(s)) THEN LStrip(Tail(s)) ELSE s

RECURSIVE RStrip(_)
RStrip(s) ==
    IF s = <<>> THEN <<>>
    ELSE IF IsSpace(s[Len(s)]) THEN RStrip(SubSeq(s, 1, Len(s) - 1)) ELSE s

Strip(s) == RStrip(LStrip(s))

\* re.sub(r'\s+', ' ', text): every maximal run of whitespace becomes one blank.
RECURSIVE CollapseSpaces(_)
CollapseSpaces(s) ==
    IF s = <<>> THEN <<>>
    ELSE IF IsSpace(Head(s))
         THEN <<" ">> \o CollapseSpaces(LStrip(Tail(s)))
         ELSE <<Head(s)>> \o CollapseSpaces(Tail(s))

NullSentinels == { <<"n","a","n">>, <<"n","o","n","e">>, <<"n","u","l","l">> }

\* DataNormalizer.clean_text.  The sentinel test is made on the lower-cased
\* text as given (not stripped), exactly as the code does.
clean_text(text) ==
    IF text = None \/ Strip(text) = <<>> \/ LowerStr(text) \in NullSentinels
    THEN None
    ELSE LET t == CollapseSpaces(Strip(text))
         IN  IF t = <<>> THEN None ELSE t

(***************************************************************************)
(* Name similarity: fuzz.ratio with python-Levenshtein, i.e.               *)
(* round(100 * 2*LCS / (len1 + len2)).                                     *)
(***************************************************************************)
RECURSIVE LCS(_, _)
LCS(a, b) ==
    IF a = <<>> \/ b = <<>> THEN 0
    ELSE IF Head(a) = Head(b) THEN 1 + LCS(Tail(a), Tail(b))
    ELSE LET x == LCS(Tail(a), b)
             y == LCS(a, Tail(b))
         IN  IF x >= y THEN x ELSE y

fuzz_ratio(a, b) ==
    IF Len(a) + Len(b) = 0 THEN 0
    ELSE (2 * 200 * LCS(a, b) + (Len(a) + Len(b))) \div (2 * (Len(a) + Len(b)))

\* Default of the `threshold` parameter of are_duplicates.
threshold == 85

(***************************************************************************)
(* State.                                                                  *)
(***************************************************************************)
VARIABLES
    FUZZY_AVAILABLE,  \* module flag of 2_normalisation.py: fuzzywuzzy imported
    raw_dir,              \* data/raw: the per-source tables (inputs)
    sortOrder,        \* row labels in the order df.sort_values('source',
                      \* ascending=False) yields them (ties: the sort's choice)
    processed_dir,        \* data/processed: the canonical tables (outputs)
    npc,              \* position of DataNormalizer.run
    nrun,             \* number of DataNormalizer.run calls started
    firstOut,         \* data/processed as the first completed run left it
    df,               \* the merged frame of the last normalize_hospitals_and_places
                      \* as it enters the deduplication loop (labels kept)
    to_remove         \* that loop's to_remove: removed label -> the label it
                      \* was compared with when it was removed

\* The variables only DataNormalizer touches.
nlocal == <<FUZZY_AVAILABLE, raw_dir, sortOrder, npc, nrun, firstOut, df, to_remove>>

VARIABLES
    enriched_dir,     \* data/enriched: hospitals.csv and the three hospital_*.csv
    cache_file,       \* data/cache/enrichment_cache.json
    web_cache_file,   \* data/cache/web_search_cache.json
    checkpoint_file,  \* data/cache/checkpoint.json
    use_api,          \* Enricher.use_api: OPENROUTER_API_KEY is set
    writable,         \* data/enriched/hospitals.csv can be written by the
                      \* running process (not locked, not read-only)
    cache,            \* Enricher.cache
    web_cache,        \* Enricher.web_cache
    checkpoint,       \* Enricher.checkpoint['last_processed_index']
    medications,      \* Enricher.medications (the ids of medications.csv)
    valid_services,   \* Enricher.valid_services
    valid_equipment,  \* Enricher.valid_equipment
    df_hospitals,     \* run: the frame read from data/enriched/hospitals.csv
    rel_services,     \* run: rows collected for hospital_services.csv
    rel_equipment,    \* run: rows collected for hospital_equipment.csv
    rel_medications,  \* run: rows collected for hospital_medications.csv
    start_index,      \* run: first frame index of this run
    processed,        \* run: the counter 'processed'
    idx,              \* run: the outer loop's index
    batch_idx,        \* run: the inner loop's position in the batch
    batch_results,    \* run: what infer_details_batch_llm returned
    pc,               \* position of the Enricher process
    runs,             \* number of Enricher processes started
    log,              \* frame indexes this run has counted, in order
    sent,             \* requests this run handed to the inference service
    flushed           \* data/ as the previous process left it

\* The variables only the Enricher touches.
elocal == <<enriched_dir, cache_file, web_cache_file, checkpoint_file, use_api,
            writable, cache, web_cache, checkpoint, medications, valid_services,
            valid_equipment, df_hospitals, rel_services, rel_equipment,
            rel_medications, start_index, processed, idx, batch_idx,
            batch_results, pc, runs, log, sent, flushed>>

VARIABLES
    requests_json_error,  \* the class of the error response.json() raises in
                          \* the installed requests: "RequestException"
                          \* (requests >= 2.27) or "ValueError" (older)
    current_model_index,  \* Enricher.current_model_index
    time_since_last_request,  \* _wait_for_rate_limit: time.time() minus
                          \* Enricher.last_request_time, as far as it is
                          \* below delay_between_requests
    models_tried,         \* _call_llm_json: the local models_tried
    cpc,                  \* position of _call_llm_json
    calls,                \* number of _call_llm_json calls started
    attempts,             \* requests.post calls of the current call
    retries,              \* attempts of the current call that followed a
                          \* transport error, on the provider it is at
    last,                 \* the latest requests.post: provider, response,
                          \* the branch that handled it, the sleep after it
    outcome,              \* what the latest _call_llm_json returned
    abandoned             \* the providers the current call has rotated away
                          \* from (history)

\* The variables only _call_llm_json touches.
clocal == <<requests_json_error, current_model_index, time_since_last_request,
            models_tried, cpc, calls, attempts, retries, last, outcome,
            abandoned>>

VARIABLES
    call                  \* a function applied on its own: which one, the
                          \* argument, and the value returned once it has run

\* The variable of the functions applied on their own.
plocal == <<call>>

vars == <<nlocal, processed_dir, elocal, clocal, plocal>>

\* data/enriched before any Enricher run.
EmptyEnriched ==
    [hospitals |-> <<>>, hospital_services |-> <<>>, hospital_equipment |-> <<>>,
     hospital_medications |-> <<>>]

NoCheckpoint == [exists |-> FALSE, last_processed_index |-> -1]

\* The state of a process that is not running: no attribute, no local.
ProcessOff ==
    /\ use_api = FALSE
    /\ writable = TRUE
    /\ cache = <<>>
    /\ web_cache = <<>>
    /\ checkpoint = -1
    /\ medications = {}
    /\ valid_services = {}
    /\ valid_equipment = {}
    /\ df_hospitals = <<>>
    /\ rel_services = <<>>
    /\ rel_equipment = <<>>
    /\ rel_medications = <<>>
    /\ start_index = 0
    /\ processed = 0
    /\ idx = 0
    /\ batch_idx = 0
    /\ batch_results = <<>>

\* No Enricher process has run yet: empty data/enriched and data/cache.
EnricherIdle ==
    /\ enriched_dir = EmptyEnriched
    /\ cache_file = <<>>
    /\ web_cache_file = <<>>
    /\ checkpoint_file = NoCheckpoint
    /\ ProcessOff
    /\ pc = "off"
    /\ runs = 0
    /\ log = <<>>
    /\ sent = {}
    /\ flushed = [enriched_dir |-> EmptyEnriched, checkpoint_file |-> NoCheckpoint,
                  processed_dir |-> <<>>, pc |-> "off", succeeded |-> {}]

\* Enricher.models: the providers, in the order of the list.
models == <<"llama-3.1-8b", "gemini-flash-1.5", "llama-3.3-70b", "claude-3.5-sonnet">>

\* Times are in half seconds: delay_between_requests = 1.5 s,
\* quick_retry_delay = 5 s.
delay_between_requests == 3
quick_retry_delay == 10
max_retries == 2

\* No requests.post yet.
NoAttempt ==
    [model |-> 0, status |-> "none", body |-> "none", handled |-> "none",
     waited |-> 0, slept |-> 0]

\* The attributes of the inference client after Enricher.__init__
\* (last_request_time = 0, long ago), and no call of _call_llm_json yet.
ClientIdle ==
    /\ current_model_index = 0
    /\ time_since_last_request = delay_between_requests
    /\ models_tried = 0
    /\ cpc = "idle"
    /\ calls = 0
    /\ attempts = 0
    /\ retries = 0
    /\ last = NoAttempt
    /\ outcome = "no call"
    /\ abandoned = {}

\* No function is applied on its own.
CallIdle == call = [fn |-> "none", arg |-> None, ret |-> None, returned |-> FALSE]

(***************************************************************************)
(* Generic helpers on finite sets of integers and sequences.               *)
(***************************************************************************)
Min(S) == CHOOSE x \in S : \A y \in S : x <= y

RECURSIVE Ascending(_)
Ascending(S) ==
    IF S = {} THEN <<>>
    ELSE LET m == Min(S) IN <<m>> \o Ascending(S \ {m})

Range(f) == { f[i] : i \in DOMAIN f }

Perms(S) ==
    { o \in [1..Cardinality(S) -> S] : \A a, b \in 1..Cardinality(S) : a # b => o[a] # o[b] }

\* Value used for a missing integer cell (NaN in place_id).
NoId == 0

(***************************************************************************)
(* DataNormalizer.are_duplicates                                           *)
(***************************************************************************)
Truthy(t) == t # None /\ t # <<>>

are_duplicates(name1, name2) ==
    IF ~Truthy(name1) \/ ~Truthy(name2) \/ ~FUZZY_AVAILABLE
    THEN IF Truthy(name1) /\ Truthy(name2) THEN name1 = name2 ELSE FALSE
    ELSE fuzz_ratio(LowerStr(name1), LowerStr(name2)) > threshold

(***************************************************************************)
(* DataNormalizer.normalize_hospitals_and_places                           *)
(***************************************************************************)
\* pd.concat(dfs, ignore_index=True): gov rows, then osm rows tagged 'osm'.
ConcatSources(r) ==
    (IF "gov" \in r.files THEN r.gov ELSE <<>>)
    \o (IF "osm" \in r.files
        THEN [i \in DOMAIN r.osm |-> [r.osm[i] EXCEPT !.source = "osm"]]
        ELSE <<>>)

CleanColumns(frame) ==
    [i \in DOMAIN frame |->
        [frame[i] EXCEPT !.name = clean_text(@), !.city = clean_text(@),
                      !.province = clean_text(@), !.region = clean_text(@)]]

\* city_info: the first row carrying a region, per city.
HasCityInfo(frame, c) ==
    Truthy(c) /\ \E k \in DOMAIN frame : frame[k].region # None /\ frame[k].city = c

CityInfo(frame, c) ==
    frame[Min({ k \in DOMAIN frame : frame[k].region # None /\ frame[k].city = c })]

Backfill(frame) ==
    [i \in DOMAIN frame |->
        IF HasCityInfo(frame, frame[i].city)
        THEN [frame[i] EXCEPT
                !.region   = IF @ = None THEN CityInfo(frame, frame[i].city).region ELSE @,
                !.province = IF @ = None THEN CityInfo(frame, frame[i].city).province ELSE @]
        ELSE frame[i]]

\* drop_duplicates(subset=['city']) keeps the first row of each city (missing
\* cities count as equal), then dropna(subset=['city']).
\* Mutant of PlaceLabels: only rows with a known region become places.
PlaceLabels_KnownRegion(frame) ==
    { i \in DOMAIN frame :
        /\ frame[i].city # None
        /\ frame[i].region # None
        /\ \A k \in DOMAIN frame : k < i => frame[k].city # frame[i].city }

PlaceLabels(frame) ==
    { i \in DOMAIN frame :
        /\ frame[i].city # None
        /\ \A k \in DOMAIN frame : k < i => frame[k].city # frame[i].city }

AssignPlaceIds(labels) == [n \in 1..Len(labels) |-> n]

DerivePlaces(frame) ==
    LET labels == Ascending(PlaceLabels(frame))
        ids    == AssignPlaceIds(labels)
    IN  [n \in 1..Len(labels) |->
            [region |-> frame[labels[n]].region, province |-> frame[labels[n]].province,
             city |-> frame[labels[n]].city, id |-> ids[n]]]

\* place_map = places.set_index('city')['id'].to_dict(); df['city'].map(place_map)
PlaceIdOf(places, city) ==
    IF \E n \in DOMAIN places : places[n].city = city
    THEN places[CHOOSE n \in DOMAIN places : places[n].city = city].id
    ELSE NoId

LinkPlaces(frame, places) ==
    [i \in DOMAIN frame |->
        [name |-> frame[i].name, city |-> frame[i].city, region |-> frame[i].region,
         province |-> frame[i].province, phone |-> frame[i].phone,
         source |-> frame[i].source, place_id |-> PlaceIdOf(places, frame[i].city)]]

\* row.notna().sum() over the modelled columns ('type' and 'source' are
\* always filled).
NonNullCount(row) ==
      (IF row.name # None THEN 1 ELSE 0) + (IF row.city # None THEN 1 ELSE 0)
    + (IF row.region # None THEN 1 ELSE 0) + (IF row.province # None THEN 1 ELSE 0)
    + (IF row.phone # None THEN 1 ELSE 0) + (IF row.place_id # NoId THEN 1 ELSE 0)
    + 2

NamedLabels(frame) == { i \in DOMAIN frame : frame[i].name # None }

\* 'osm' sorts after 'gov'; ascending=False puts it first.
SourceKey(s) == IF s = "osm" THEN 2 ELSE 1

SortOrders(frame) ==
    { o \in Perms(NamedLabels(frame)) :
        \A a, b \in DOMAIN o : a < b => SourceKey(frame[o[a]].source) >= SourceKey(frame[o[b]].source) }

\* Mutant of KeepFirstOnTie: the comparison of the two counts reversed.
KeepFirstOnTie_KeepsFewer(c1, c2) == c1 <= c2

KeepFirstOnTie(c1, c2) == c1 >= c2

\* Mutant of DedupInner: the inner loop also stops after removing row j.
RECURSIVE DedupInner_BreakOnAnyMatch(_, _, _, _, _)
DedupInner_BreakOnAnyMatch(frame, order, i, m, rem) ==
    IF m > Len(order) THEN rem
    ELSE LET j == order[m] IN
         IF j <= i \/ j \in DOMAIN rem
         THEN DedupInner_BreakOnAnyMatch(frame, order, i, m + 1, rem)
         ELSE IF frame[i].city = frame[j].city /\ are_duplicates(frame[i].name, frame[j].name)
              THEN IF NonNullCount(frame[i]) >= NonNullCount(frame[j])
                   THEN rem @@ (j :> i)
                   ELSE rem @@ (i :> j)
              ELSE DedupInner_BreakOnAnyMatch(frame, order, i, m + 1, rem)

\* The inner loop of the deduplication for row label i, from position m of
\* the sorted frame; rem maps each removed label to the label it lost to.
RECURSIVE DedupInner(_, _, _, _, _)
DedupInner(frame, order, i, m, rem) ==
    IF m > Len(order) THEN rem
    ELSE LET j == order[m] IN
         IF j <= i \/ j \in DOMAIN rem
         THEN DedupInner(frame, order, i, m + 1, rem)
         ELSE IF frame[i].city = frame[j].city /\ are_duplicates(frame[i].name, frame[j].name)
              THEN IF KeepFirstOnTie(NonNullCount(frame[i]), NonNullCount(frame[j]))
                   THEN DedupInner(frame, order, i, m + 1, rem @@ (j :> i))
                   ELSE rem @@ (i :> j)
              ELSE DedupInner(frame, order, i, m + 1, rem)

RECURSIVE DedupOuter(_, _, _, _)
DedupOuter(frame, order, k, rem) ==
    IF k > Len(order) THEN rem
    ELSE IF order[k] \in DOMAIN rem
         THEN DedupOuter(frame, order, k + 1, rem)
         ELSE DedupOuter(frame, order, k + 1, DedupInner(frame, order, order[k], 1, rem))

Deduplicate(frame, order) == DedupOuter(frame, order, 1, <<>>)

\* Mutant of AssignIds: the id is the row's label, given before the removals.
AssignIds_BeforeDedup(labels) == labels

\* Mutant of AssignIds: ids continue after those of the table already written.
AssignIds_AfterExisting(labels) ==
    [n \in 1..Len(labels) |-> n + Len(processed_dir.hospitals)]

AssignIds(labels) == [n \in 1..Len(labels) |-> n]

CanonicalHospitals(frame, rem) ==
    LET labels == Ascending(NamedLabels(frame) \ DOMAIN rem)
        ids    == AssignIds(labels)
    IN  [n \in 1..Len(labels) |->
            [name |-> frame[labels[n]].name, city |-> frame[labels[n]].city,
             region |-> frame[labels[n]].region, province |-> frame[labels[n]].province,
             phone |-> frame[labels[n]].phone, source |-> frame[labels[n]].source,
             place_id |-> frame[labels[n]].place_id, id |-> ids[n],
             label |-> labels[n]]]

\* The whole of normalize_hospitals_and_places on the raw directory r: the new
\* places and hospitals tables and the loop's to_remove.
HospitalsAndPlaces(r, order) ==
    LET base == Backfill(CleanColumns(ConcatSources(r)))
        places == DerivePlaces(base)
        frame == LinkPlaces(base, places)
        rem == Deduplicate(frame, order)
    IN  [places    |-> places,
         frame     |-> frame,
         hospitals |-> CanonicalHospitals(frame, rem),
         rem       |-> rem]

(***************************************************************************)
(* Reference tables: equipment, medications, suppliers, services.          *)
(***************************************************************************)
CleanNames(rows) == [i \in DOMAIN rows |-> [rows[i] EXCEPT !.name = clean_text(@)]]

\* dropna(subset=['name']).drop_duplicates(subset=['name']) (keep='first').
FirstOfName(rows) ==
    { i \in DOMAIN rows :
        /\ rows[i].name # None
        /\ \A k \in DOMAIN rows : k < i => rows[k].name # rows[i].name }

AssignRefIds(labels) == [n \in 1..Len(labels) |-> n]

CanonicalByName(rows) ==
    LET labels == Ascending(FirstOfName(rows))
        ids    == AssignRefIds(labels)
    IN  [n \in 1..Len(labels) |->
            [name |-> rows[labels[n]].name, extra |-> rows[labels[n]].extra, id |-> ids[n]]]

\* str.match(r'^[A-Z]{2}\d+$')
IsCode(s) ==
    /\ Len(s) >= 3
    /\ IsUpper(s[1]) /\ IsUpper(s[2])
    /\ \A i \in 3..Len(s) : IsDigit(s[i])

blacklist ==
    { <<"C","o","d","e"," ","C","N","O","P","S">>,
      <<"D","i","s","p","o","s","i","t","i","f"," ","M","é","d","i","c","a","l">>,
      <<"D","C","M">> }

\* Shortest device name kept by the filter of normalize_equipment.
MinDeviceNameLen == 5

\* The filter applied to medical_devices.csv before it joins the references.
FilterDevices(rows) ==
    LET c == CleanNames(rows)
    IN  SelectSeq(c, LAMBDA row :
            /\ row.name # None
            /\ ~(Len(row.name) < MinDeviceNameLen)
            /\ ~IsCode(row.name)
            /\ row.name \notin blacklist)

EquipmentSources(r) ==
    (IF "equipment_ref" \in r.files THEN <<r.equipment_ref>> ELSE <<>>)
    \o (IF "medical_devices" \in r.files /\ FilterDevices(r.medical_devices) # <<>>
        THEN <<FilterDevices(r.medical_devices)>> ELSE <<>>)

RECURSIVE Flatten(_)
Flatten(ss) == IF ss = <<>> THEN <<>> ELSE Head(ss) \o Flatten(Tail(ss))

(***************************************************************************)
(* DataNormalizer.generate_supplier_links                                  *)
(***************************************************************************)
Contains(s, sub) ==
    \E i \in 0..(Len(s) - Len(sub)) : SubSeq(s, i + 1, i + Len(sub)) = sub

MatchingSuppliers(supp, manufacturer) ==
    { n \in DOMAIN supp : Contains(LowerStr(supp[n].name), LowerStr(manufacturer)) }

SupplierLinks(meds, supp) ==
    LET linked == SelectSeq(meds, LAMBDA med :
                      med.extra # None /\ MatchingSuppliers(supp, med.extra) # {})
    IN  [n \in DOMAIN linked |->
            [supplier_id   |-> supp[Min(MatchingSuppliers(supp, linked[n].extra))].id,
             medication_id |-> linked[n].id]]

(***************************************************************************)
(* DataNormalizer.run, one action per step of the method.                  *)
(***************************************************************************)
normalize_hospitals_and_places ==
    /\ npc = "hospitals"
    /\ npc' = "equipment"
    /\ IF {"gov", "osm"} \cap raw_dir.files = {}
       THEN UNCHANGED <<processed_dir, df, to_remove>>
       ELSE LET out == HospitalsAndPlaces(raw_dir, sortOrder)
            IN  /\ processed_dir' = [processed_dir EXCEPT
                        !.files = @ \cup {"places", "hospitals"},
                        !.places = out.places,
                        !.hospitals = out.hospitals]
                /\ df' = out.frame
                /\ to_remove' = out.rem
    /\ UNCHANGED <<FUZZY_AVAILABLE, raw_dir, sortOrder, nrun, firstOut>>
    /\ UNCHANGED <<elocal, clocal, plocal>>

normalize_equipment ==
    /\ npc = "equipment"
    /\ npc' = "medications"
    /\ IF EquipmentSources(raw_dir) = <<>>
       THEN UNCHANGED processed_dir
       ELSE processed_dir' = [processed_dir EXCEPT
                !.files = @ \cup {"equipment"},
                !.equipment = CanonicalByName(CleanNames(Flatten(EquipmentSources(raw_dir))))]
    /\ UNCHANGED <<FUZZY_AVAILABLE, raw_dir, sortOrder, nrun, firstOut, df, to_remove>>
    /\ UNCHANGED <<elocal, clocal, plocal>>

normalize_medications ==
    /\ npc = "medications"
    /\ npc' = "suppliers"
    /\ IF "medicaments" \notin raw_dir.files
       THEN UNCHANGED processed_dir
       ELSE processed_dir' = [processed_dir EXCEPT
                !.files = @ \cup {"medications"},
                !.medications = CanonicalByName(
                    [i \in DOMAIN raw_dir.medicaments |->
                        [name  |-> clean_text(raw_dir.medicaments[i].name),
                         extra |-> clean_text(raw_dir.medicaments[i].extra)]])]
    /\ UNCHANGED <<FUZZY_AVAILABLE, raw_dir, sortOrder, nrun, firstOut, df, to_remove>>
    /\ UNCHANGED <<elocal, clocal, plocal>>

normalize_suppliers ==
    /\ npc = "suppliers"
    /\ npc' = "services"
    /\ IF "suppliers" \notin raw_dir.files
       THEN UNCHANGED processed_dir
       ELSE processed_dir' = [processed_dir EXCEPT
                !.files = @ \cup {"suppliers"},
                !.suppliers = CanonicalByName(CleanNames(raw_dir.suppliers))]
    /\ UNCHANGED <<FUZZY_AVAILABLE, raw_dir, sortOrder, nrun, firstOut, df, to_remove>>
    /\ UNCHANGED <<elocal, clocal, plocal>>

normalize_services ==
    /\ npc = "services"
    /\ npc' = "links"
    /\ IF "services" \notin raw_dir.files
       THEN UNCHANGED processed_dir
       ELSE processed_dir' = [processed_dir EXCEPT
                !.files = @ \cup {"services"},
                !.services = CanonicalByName(CleanNames(raw_dir.services))]
    /\ UNCHANGED <<FUZZY_AVAILABLE, raw_dir, sortOrder, nrun, firstOut, df, to_remove>>
    /\ UNCHANGED <<elocal, clocal, plocal>>

generate_supplier_links ==
    /\ npc = "links"
    /\ npc' = "done"
    /\ IF ~({"medications", "suppliers"} \subseteq processed_dir.files)
          \/ SupplierLinks(processed_dir.medications, processed_dir.suppliers) = <<>>
       THEN UNCHANGED processed_dir
       ELSE processed_dir' = [processed_dir EXCEPT
                !.files = @ \cup {"supplier_medications"},
                !.supplier_medications =
                    SupplierLinks(processed_dir.medications, processed_dir.suppliers)]
    /\ firstOut' = IF nrun = 1 THEN processed_dir' ELSE firstOut
    /\ UNCHANGED <<FUZZY_AVAILABLE, raw_dir, sortOrder, nrun, df, to_remove>>
    /\ UNCHANGED <<elocal, clocal, plocal>>

\* DataNormalizer().run() is started again on the same data/raw.
NormalizerRerun ==
    /\ npc = "done"
    /\ nrun = 1
    /\ nrun' = 2
    /\ npc' = "hospitals"
    /\ UNCHANGED <<FUZZY_AVAILABLE, raw_dir, sortOrder, processed_dir, firstOut, df, to_remove>>
    /\ UNCHANGED <<elocal, clocal, plocal>>

(***************************************************************************)
(* Inputs: the raw tables the model is run on.                             *)
(***************************************************************************)
Rabat == <<"R","a","b","a","t">>
Fes   == <<"F","e","s">>
RSK   == <<"R","S","K">>
FM    == <<"F","M">>
Phone == <<"0","5","3","7">>

HRow(n, c, r, p, ph, src) ==
    [name |-> n, city |-> c, region |-> r, province |-> p, phone |-> ph, source |-> src]

\* Rows of gov_hospitals_clean.csv ('source' is written by the scraper).
GovRows ==
    { HRow(<<"a","b","c">>, Rabat, RSK, Rabat, None, "gov"),
      HRow(<<"a","b","c","d">>, Rabat, None, None, Phone, "gov"),
      HRow(<<" ">>, <<"F","e","s"," ">>, FM, None, None, "gov") }

\* Rows of osm_hospitals.csv (no region, no province, no source column).
OsmRows ==
    { HRow(<<"a","b","c","d">>, Rabat, None, None, Phone, ""),
      HRow(<<"a","b","c","d","e">>, Rabat, None, None, None, ""),
      HRow(<<" ","A","b","c">>, None, None, None, Phone, "") }

SeqsUpTo(S, n) == UNION { [1..k -> S] : k \in 0..n }

HospitalInputs ==
    { t \in [gov : SeqsUpTo(GovRows, MaxRows), osm : SeqsUpTo(OsmRows, MaxRows)] :
        Len(t.gov) + Len(t.osm) <= MaxRows }

RRow(n, x) == [name |-> n, extra |-> x]

ServiceInputs ==
    { <<>>,
      << RRow(<<"U","r","g">>, None), RRow(<<"L","a","b","o">>, None) >>,
      << RRow(<<"U","r","g">>, None), RRow(<<" ","U","r","g">>, None),
         RRow(<<"n","a","n">>, None) >> }

SupplierInputs ==
    { <<>>,
      << RRow(<<"S","u","n">>, None), RRow(<<"L","a","b","X">>, None) >>,
      << RRow(<<"L","a","b","X">>, None), RRow(<<"L","a","b","X"," ">>, None),
         RRow(<<"X","l","a","b">>, None) >> }

\* 'extra' of a medication row is its manufacturer (column EPI).
MedicationInputs ==
    { <<>>,
      << RRow(<<"m","1">>, <<"l","a","b">>), RRow(<<"m","2">>, None) >>,
      << RRow(<<"m","1">>, <<"L","A","B">>), RRow(<<"m","1">>, <<"S","u","n">>),
         RRow(None, <<"S","u","n">>), RRow(<<"m","3">>, <<"Z","e","d">>) >> }

EquipmentRefInputs ==
    { <<>>,
      << RRow(<<"I","R","M">>, None), RRow(<<"S","c","a","n","n">>, None) >> }

DeviceInputs ==
    { <<>>,
      << RRow(<<"A","B","1","2","3">>, None), RRow(<<"D","C","M">>, None) >>,
      << RRow(<<"S","c","a","n","n">>, None), RRow(<<"E","c","h","o","g">>, None),
         RRow(<<"C","o","d","e"," ","C","N","O","P","S">>, None) >> }

\* A file of data/raw exists when it has rows; an empty table stands for a
\* missing file, except for the two hospital sources, which may also exist
\* with no row.
RawDir(h, govFile, osmFile, eq, dev, med, sup, srv) ==
    [files |-> (IF h.gov # <<>> \/ govFile THEN {"gov"} ELSE {})
               \cup (IF h.osm # <<>> \/ osmFile THEN {"osm"} ELSE {})
               \cup (IF eq # <<>> THEN {"equipment_ref"} ELSE {})
               \cup (IF dev # <<>> THEN {"medical_devices"} ELSE {})
               \cup (IF med # <<>> THEN {"medicaments"} ELSE {})
               \cup (IF sup # <<>> THEN {"suppliers"} ELSE {})
               \cup (IF srv # <<>> THEN {"services"} ELSE {}),
     gov |-> h.gov, osm |-> h.osm, equipment_ref |-> eq, medical_devices |-> dev,
     medicaments |-> med, suppliers |-> sup, services |-> srv]

DefaultHospitals ==
    [gov |-> << HRow(<<"a","b","c">>, Rabat, RSK, Rabat, None, "gov"),
                HRow(<<"a","b","c","d">>, Rabat, None, None, Phone, "gov") >>,
     osm |-> << HRow(<<"a","b","c","d","e">>, Rabat, None, None, None, "") >>]

\* Every input has either varied hospital sources or varied reference tables.
RawInputs ==
    { RawDir(h, gf, of,
             << RRow(<<"S","c","a","n","n">>, None) >>, <<>>,
             << RRow(<<"m","1">>, <<"l","a","b">>) >>,
             << RRow(<<"L","a","b","X">>, None) >>,
             << RRow(<<"U","r","g">>, None) >>) :
        h \in HospitalInputs, gf \in BOOLEAN, of \in BOOLEAN }
    \cup
    { RawDir(DefaultHospitals, TRUE, TRUE, eq, dev, med, sup, srv) :
        eq \in EquipmentRefInputs, dev \in DeviceInputs, med \in MedicationInputs,
        sup \in SupplierInputs, srv \in ServiceInputs }

EmptyProcessed ==
    [files |-> {}, places |-> <<>>, hospitals |-> <<>>, equipment |-> <<>>,
     medications |-> <<>>, suppliers |-> <<>>, services |-> <<>>,
     supplier_medications |-> <<>>]

NormInit ==
    /\ FUZZY_AVAILABLE \in BOOLEAN
    /\ raw_dir \in RawInputs
    /\ sortOrder \in SortOrders(CleanColumns(ConcatSources(raw_dir)))
    /\ processed_dir = EmptyProcessed
    /\ npc = "hospitals"
    /\ nrun = 1
    /\ firstOut = EmptyProcessed
    /\ df = <<>>
    /\ to_remove = <<>>
    /\ EnricherIdle
    /\ requests_json_error = "RequestException"
    /\ ClientIdle
    /\ CallIdle

NormNext ==
    \/ normalize_hospitals_and_places
    \/ normalize_equipment
    \/ normalize_medications
    \/ normalize_suppliers
    \/ normalize_services
    \/ generate_supplier_links
    \/ NormalizerRerun

NormSpec == NormInit /\ [][NormNext]_vars

(***************************************************************************)
(* Properties of the Canonicalizer (checked under NormSpec).               *)
(***************************************************************************)
HospitalsWritten == "hospitals" \in processed_dir.files

Similarity(a, b) == fuzz_ratio(LowerStr(a.name), LowerStr(b.name))

NoSimilarPairSurvives ==
    \A a, b \in DOMAIN processed_dir.hospitals :
        (a # b /\ processed_dir.hospitals[a].city = processed_dir.hospitals[b].city)
            => Similarity(processed_dir.hospitals[a], processed_dir.hospitals[b]) <= threshold

\* C4 (as claimed): after the deduplication loop no two surviving facility
\* records of the same normalized city have a name similarity above the
\* threshold, for every input table and every order the sort produces.
C4_DedupInvariant_AsClaimed == HospitalsWritten => NoSimilarPairSurvives

\* C4 (amended): the same, when the similarity library was imported
\* (FUZZY_AVAILABLE); without it only records with identical names are
\* duplicates.
C4_DedupInvariant == (HospitalsWritten /\ FUZZY_AVAILABLE) => NoSimilarPairSurvives

\* A chain was merged: a row was removed and two rows of one city survive.
C4_Witness ==
    /\ HospitalsWritten /\ FUZZY_AVAILABLE
    /\ DOMAIN to_remove # {}
    /\ \E a, b \in DOMAIN processed_dir.hospitals :
          /\ a # b
          /\ processed_dir.hospitals[a].city = processed_dir.hospitals[b].city
          /\ \E r \in DOMAIN to_remove :
                /\ are_duplicates(df[r].name, processed_dir.hospitals[a].name)
                /\ ~are_duplicates(df[r].name, processed_dir.hospitals[b].name)

CanonicalTables ==
    [places |-> processed_dir.places, hospitals |-> processed_dir.hospitals,
     equipment |-> processed_dir.equipment, medications |-> processed_dir.medications,
     suppliers |-> processed_dir.suppliers, services |-> processed_dir.services]

\* C7: in every canonical table written the ids are 1..n in row order, and
\* they are given to the rows that are left once every duplicate or filtered
\* row is gone (no row without a name, no two rows with one key).
C7_DenseIds ==
    /\ \A t \in DOMAIN CanonicalTables :
         \A n \in DOMAIN CanonicalTables[t] : CanonicalTables[t][n].id = n
    /\ \A t \in {"equipment", "medications", "suppliers", "services"} :
         \A n, m \in DOMAIN CanonicalTables[t] :
            /\ CanonicalTables[t][n].name # None
            /\ (n # m => CanonicalTables[t][n].name # CanonicalTables[t][m].name)
    /\ \A n, m \in DOMAIN processed_dir.places :
         /\ processed_dir.places[n].city # None
         /\ (n # m => processed_dir.places[n].city # processed_dir.places[m].city)
    /\ HospitalsWritten =>
         /\ Len(processed_dir.hospitals)
              = Cardinality(NamedLabels(df) \ DOMAIN to_remove)
         /\ \A n \in DOMAIN processed_dir.hospitals :
              processed_dir.hospitals[n].label \notin DOMAIN to_remove

\* The run is complete, a duplicate and a nameless facility row were dropped,
\* and a reference table lost a duplicate too.
C7_Witness ==
    /\ npc = "done"
    /\ DOMAIN to_remove # {}
    /\ NamedLabels(df) # DOMAIN df
    /\ Len(processed_dir.hospitals) >= 1
    /\ Len(processed_dir.places) >= 1
    /\ Len(processed_dir.equipment) >= 1

\* C8: every place_id of the facility table is missing or the id of a row of
\* the Place table of the same pass, and a facility with a city carries the
\* id of the Place row of that city.
C8_PlaceReferences ==
    HospitalsWritten =>
        \A n \in DOMAIN processed_dir.hospitals :
            LET h == processed_dir.hospitals[n] IN
            /\ \/ h.place_id = NoId
               \/ \E p \in DOMAIN processed_dir.places : processed_dir.places[p].id = h.place_id
            /\ h.city # None =>
                  \E p \in DOMAIN processed_dir.places :
                      /\ processed_dir.places[p].id = h.place_id
                      /\ processed_dir.places[p].city = h.city

\* One facility without a city (no place) beside one linked to its place.
C8_Witness ==
    /\ HospitalsWritten
    /\ \E n, m \in DOMAIN processed_dir.hospitals :
          /\ processed_dir.hospitals[n].place_id = NoId
          /\ processed_dir.hospitals[m].place_id # NoId
          /\ processed_dir.hospitals[m].region = None

NumHosp == 3
\* Stand-in for self.batch_size = 10.
BatchSize == 2
\* Stand-in for the 20 of 'processed % 20 == 0' and of
\* 'len(self.web_cache) % 20 == 0'.
SaveEvery == 2
\* Enricher processes started one after the other.
MaxRuns == 2

\* pandas' NaN in the integer column 'beds', JSON null for a number.
NaN == -1000000

TargetText == {"address", "phone", "email", "website"}

\* pd.isna(v) or not v, for a text cell.
MissingText(v) == v = None \/ v = <<>>

\* pd.isna(v) or v == 0, for the bed count.
MissingBeds(v) == v = NaN \/ v = 0

\* The missing_fields list of search_hospital_info_with_llm.
missing_fields(current_data) ==
    { f \in TargetText : MissingText(current_data[f]) }
    \cup (IF MissingBeds(current_data.beds) THEN {"beds"} ELSE {})

skip_search_Never(missing) == FALSE

\* 'if len(missing_fields) < 2: return None'.
skip_search(missing) == Cardinality(missing) < 2

StartsWith(s, prefix) ==
    Len(s) >= Len(prefix) /\ SubSeq(s, 1, Len(prefix)) = prefix

HasChar(s, c) == \E n \in 1..Len(s) : s[n] = c

\* A parsed JSON object that is empty, and what the web cache then holds.
NoInfo == [empty |-> TRUE]

validate_hospital_info_Unvalidated(info) == info

\* _validate_hospital_info on a parsed JSON object.
validate_hospital_info(info) ==
    IF info = NoInfo THEN NoInfo
    ELSE
    [address |-> info.address,
     phone   |-> IF MissingText(info.phone) THEN info.phone
                 ELSE IF StartsWith(info.phone, <<"+","2","1","2">>)
                         \/ StartsWith(info.phone, <<"0">>)
                      THEN info.phone ELSE None,
     email   |-> IF MissingText(info.email) THEN info.email
                 ELSE IF HasChar(info.email, "@") /\ HasChar(info.email, ".")
                      THEN info.email ELSE None,
     website |-> IF MissingText(info.website) THEN info.website
                 ELSE IF StartsWith(info.website, <<"h","t","t","p",":","/","/">>)
                         \/ StartsWith(info.website, <<"h","t","t","p","s",":","/","/">>)
                      THEN info.website
                      ELSE IF StartsWith(info.website, <<"w","w","w",".">>)
                           THEN <<"h","t","t","p","s",":","/","/">> \o info.website
                           ELSE None,
     beds    |-> IF info.beds = NaN \/ info.beds = 0 THEN info.beds
                 ELSE IF info.beds < 0 \/ info.beds > 10000 THEN NaN
                      ELSE info.beds]

MergeField_Overwrite(f, current, offered) ==
    IF f = "beds"
    THEN IF offered # NaN /\ offered # 0 THEN offered ELSE current
    ELSE IF ~MissingText(offered) THEN offered ELSE current

\* One field of the 'updates' of enrich_hospital_with_web_search applied to the
\* row: the offered value when it is truthy and the current one is missing.
MergeField(f, current, offered) ==
    IF f = "beds"
    THEN IF offered # NaN /\ offered # 0 /\ MissingBeds(current)
         THEN offered ELSE current
    ELSE IF ~MissingText(offered) /\ MissingText(current)
         THEN offered ELSE current

\* enrich_hospital_with_web_search followed by the loop of run that writes the
\* updates into the frame row.
ApplyWebInfo(row, web_info) ==
    IF web_info = NoInfo THEN row
    ELSE [row EXCEPT !.address = MergeField("address", @, web_info.address),
                     !.phone   = MergeField("phone", @, web_info.phone),
                     !.email   = MergeField("email", @, web_info.email),
                     !.website = MergeField("website", @, web_info.website),
                     !.beds    = MergeField("beds", @, web_info.beds)]

\* 'web_{name}_{city}' and '{h_id}_{h_name}'.
WebKey(row) == <<"web", row.name, row.city>>
CacheKey(row) == <<row.id, row.name>>

\* The ranges (nb_services, nb_equip, beds) get_simulated_data draws from.
SimulatedRanges(hospital_type) ==
    LET htype == LowerStr(hospital_type)
    IN  IF \/ Contains(htype, <<"c","h","u">>)
           \/ Contains(htype, <<"u","n","i","v","e","r","s","i","t","a","i","r","e">>)
           \/ Contains(htype, <<"r","é","g","i","o","n","a","l">>)
        THEN [nb_services |-> <<10, 20>>, nb_equip |-> <<15, 50>>, beds |-> <<300, 800>>]
        ELSE IF \/ Contains(htype, <<"c","l","i","n","i","q","u","e">>)
                \/ Contains(htype, <<"p","o","l","y","c","l","i","n","i","q","u","e">>)
        THEN [nb_services |-> <<5, 12>>, nb_equip |-> <<5, 20>>, beds |-> <<30, 150>>]
        ELSE [nb_services |-> <<1, 5>>, nb_equip |-> <<1, 5>>, beds |-> <<10, 60>>]

\* The draws of one get_simulated_data call: each of its three
\* random.randint(lo, hi) yields its lower end (draw 1), or each its upper
\* end (draw 2).
Draws == {1, 2}

\* random.sample(pool, k): the k-element subsets of the pool (the order of a
\* sample is not kept; rows are appended by ascending id).
Sample(pool, k) == { S \in SUBSET pool : Cardinality(S) = k }

Ids(table) == { table[n].id : n \in 1..Len(table) }


\* get_simulated_data under draw d: the (s_ids, e_ids, beds) it may return.
get_simulated_data(hospital_type, d) ==
    LET r == SimulatedRanges(hospital_type)
        ns == Min({r.nb_services[d], Cardinality(valid_services)})
        ne == Min({r.nb_equip[d], Cardinality(valid_equipment)})
    IN  { [s_ids |-> se[1], e_ids |-> se[2], beds |-> r.beds[d]] :
            se \in Sample(valid_services, ns) \X Sample(valid_equipment, ne) }

\* The least number of medications generate_medication_stock draws: the 10 of
\* random.randint(10, min(50, len(self.medications))).
MinStock == 10
MaxStock == 50

\* generate_medication_stock raises ValueError when the table has fewer than
\* MinStock rows (randint over an empty range).
StockRaises == medications # {} /\ Cardinality(medications) < MinStock

\* generate_medication_stock(h_id): the rows it may return (the column
\* stock_quantity, a random.randint(10, 1000), is left out).
generate_medication_stock(h_id) ==
    IF medications = {} THEN { <<>> }
    ELSE UNION { { [n \in 1..nb_meds |->
                      [hospital_id |-> h_id, medication_id |-> Ascending(S)[n]]] :
                   S \in Sample(medications, nb_meds) } :
                 nb_meds \in MinStock..Min({MaxStock, Cardinality(medications)}) }

\* The rows appended to rel_services and rel_equipment for one hospital (the
\* column quantity of the latter, a random.randint(1, 5), is left out).
ServiceRows(h_id, s_ids) ==
    [n \in 1..Cardinality(s_ids) |->
        [hospital_id |-> h_id, service_id |-> Ascending(s_ids)[n]]]

EquipmentRows(h_id, e_ids) ==
    [n \in 1..Cardinality(e_ids) |->
        [hospital_id |-> h_id, equipment_id |-> Ascending(e_ids)[n]]]

\* save_progress: what data/enriched holds afterwards.  When the first write
\* (hospitals.csv) raises, nothing is written and the function returns False.
save_progress(dfh, rs, re, rm) ==
    IF ~writable THEN enriched_dir ELSE
    [hospitals            |-> dfh,
     hospital_services    |-> IF rs # <<>> THEN rs ELSE enriched_dir.hospital_services,
     hospital_equipment   |-> IF re # <<>> THEN re ELSE enriched_dir.hospital_equipment,
     hospital_medications |-> IF rm # <<>> THEN rm ELSE enriched_dir.hospital_medications]

\* _save_cache or _save_web_cache at the end of save_progress: not reached when
\* a write of the tables has raised.
save_cache(file, c) == IF writable THEN c ELSE file

\* The process ends: its attributes and locals are gone (start_index is kept
\* until the next launch, as a record of where the run began).
ProcessExit ==
    /\ use_api' = FALSE
    /\ writable' = TRUE
    /\ cache' = <<>>
    /\ web_cache' = <<>>
    /\ checkpoint' = -1
    /\ medications' = {}
    /\ valid_services' = {}
    /\ valid_equipment' = {}
    /\ df_hospitals' = <<>>
    /\ rel_services' = <<>>
    /\ rel_equipment' = <<>>
    /\ rel_medications' = <<>>
    /\ processed' = 0
    /\ idx' = 0
    /\ batch_idx' = 0
    /\ batch_results' = <<>>

Stopped == {"returned", "interrupted", "crashed", "done"}

\* The batch of the outer loop's iteration: df_hospitals.iloc[idx:batch_end].
\* A row is visited once per batch and changes only during its visit, so the
\* slice and the frame agree on every row when it is read.
Batch == SubSeq(df_hospitals, idx + 1, Min({idx + BatchSize, Len(df_hospitals)}))

\* The step of range(start_index, total_hospitals, ...).
Step == IF use_api THEN BatchSize ELSE 1

\* The frame index of the row the inner loop is at.
df_idx == idx + batch_idx

\* A request handed to the inference service: its kind, whether it came back
\* with parsed data (ok) and, for every hospital it carries, the id, the
\* number of target fields missing then and whether the cache that stores the
\* answers of such requests (web_cache for a single-hospital request, cache
\* for a batch) already held an entry for the hospital.
Request(kind, rows, ok) ==
    [kind |-> kind,
     ok |-> ok,
     hospitals |-> { [id |-> rows[n].id,
                      missing |-> Cardinality(missing_fields(rows[n])),
                      cached |-> IF kind = "single"
                                 THEN WebKey(rows[n]) \in DOMAIN web_cache
                                 ELSE CacheKey(rows[n]) \in DOMAIN cache] :
                     n \in DOMAIN rows }]

\* Enricher.__init__: the caches and the checkpoint are loaded, the mode is
\* set by the presence of the API key.
Enricher_init ==
    /\ pc = "off"
    /\ use_api' \in BOOLEAN
    /\ cache' = cache_file
    /\ web_cache' = web_cache_file
    /\ checkpoint' = checkpoint_file.last_processed_index
    /\ medications' = Ids(processed_dir.medications)
    /\ runs' = runs + 1
    /\ pc' = "init"
    /\ current_model_index' = 0
    /\ time_since_last_request' = delay_between_requests
    /\ UNCHANGED <<enriched_dir, cache_file, web_cache_file, checkpoint_file,
                   writable, valid_services, valid_equipment, df_hospitals,
                   rel_services, rel_equipment, rel_medications, start_index,
                   processed, idx, batch_idx, batch_results, log, sent, flushed>>
    /\ UNCHANGED <<requests_json_error, models_tried, cpc, calls, attempts,
                   retries, last, outcome, abandoned>>
    /\ UNCHANGED <<nlocal, processed_dir, plocal>>

\* Enricher.run up to the loop: the canonical files are copied over
\* data/enriched, the reference ids and the frame are loaded.  From then on
\* data/enriched/hospitals.csv either stays writable or does not (the file is
\* opened elsewhere, the disk fills).
run_begin ==
    /\ pc = "init"
    /\ enriched_dir' = [enriched_dir EXCEPT !.hospitals = processed_dir.hospitals]
    /\ valid_services' = Ids(processed_dir.services)
    /\ valid_equipment' = Ids(processed_dir.equipment)
    /\ IF valid_services' = {} \/ valid_equipment' = {}
       THEN /\ pc' = "returned"
            /\ UNCHANGED <<df_hospitals, start_index, processed, idx, writable>>
       ELSE /\ df_hospitals' = processed_dir.hospitals
            /\ writable' \in BOOLEAN
            /\ start_index' = checkpoint + 1
            /\ processed' = checkpoint + 1
            /\ idx' = checkpoint + 1
            /\ pc' = "loop"
    /\ UNCHANGED <<cache_file, web_cache_file, checkpoint_file, use_api, cache,
                   web_cache, checkpoint, medications, rel_services,
                   rel_equipment, rel_medications, batch_idx, batch_results,
                   runs, log, sent, flushed>>
    /\ UNCHANGED <<nlocal, processed_dir, clocal, plocal>>

\* Mutant of Handler: the except clause re-raises without flushing anything.
Handler_NoFlush(target, dfh, rs, re, rm, c, wc) ==
    /\ ProcessExit
    /\ pc' = target
    /\ UNCHANGED <<enriched_dir, cache_file, web_cache_file, checkpoint_file,
                   start_index, runs, log, flushed>>
    /\ UNCHANGED <<nlocal, processed_dir, clocal, plocal>>

\* The two except clauses of run: save_progress, _save_checkpoint(processed - 1),
\* then the run returns (KeyboardInterrupt) or re-raises (Exception) and the
\* process ends.
Handler(target, dfh, rs, re, rm, c, wc) ==
    /\ enriched_dir' = save_progress(dfh, rs, re, rm)
    /\ cache_file' = save_cache(cache_file, c)
    /\ web_cache_file' = save_cache(web_cache_file, wc)
    /\ checkpoint_file' = [exists |-> TRUE, last_processed_index |-> processed - 1]
    /\ ProcessExit
    /\ pc' = target
    /\ UNCHANGED <<start_index, runs, log, flushed>>
    /\ UNCHANGED <<nlocal, processed_dir, clocal, plocal>>

\* What the inference service may answer to the batch prompt, as
\* infer_details_batch_llm sees it: no usable content (None, or text that is
\* not JSON, or an object without entries), a JSON document that is not an
\* object (data.get raises), or an object whose 'hospitals' list has the
\* batch's entries in order, in reverse order, truncated, or with a bed count
\* out of range in the first entry and a negative count in the last.
Entry(row) ==
    [id |-> row.id, service_count |-> row.id, equipment_count |-> 1,
     beds |-> 100 * row.id]

Reverse(q) == [n \in 1..Len(q) |-> q[Len(q) + 1 - n]]

BatchReplies(rows) ==
    LET inorder == [n \in 1..Len(rows) |-> Entry(rows[n])]
    IN  { [raises |-> TRUE, hospitals |-> <<>>],
          [raises |-> FALSE, hospitals |-> <<>>],
          [raises |-> FALSE, hospitals |-> inorder],
          [raises |-> FALSE, hospitals |-> Reverse(inorder)],
          [raises |-> FALSE, hospitals |-> SubSeq(inorder, 1, 1)],
          [raises |-> FALSE,
           hospitals |-> [inorder EXCEPT ![1].beds = 15000,
                                         ![Len(rows)].service_count = -1]] }

\* What the inference service may answer to the single-hospital prompt, as
\* search_hospital_info_with_llm sees it after json.loads: no usable content
\* (None or text that is not JSON), a JSON document that is not an object
\* (info.get raises), the empty object, or an object with the five fields.
GoodInfo ==
    [address |-> <<"r","u","e">>, phone |-> <<"0","5">>,
     email |-> <<"a","@","b",".","c">>, website |-> <<"w","w","w",".","x">>,
     beds |-> 400]

BadInfo ==
    [address |-> None, phone |-> <<"6","1">>, email |-> <<"a","b">>,
     website |-> <<"f","t","p",":","/","/","x">>, beds |-> 15000]

WebReplies ==
    { [kind |-> "none", info |-> NoInfo],
      [kind |-> "not_object", info |-> NoInfo],
      [kind |-> "object", info |-> NoInfo],
      [kind |-> "object", info |-> GoodInfo],
      [kind |-> "object", info |-> BadInfo] }

\* The head of 'for idx in range(...)': the loop ends, or the next batch is
\* cut and, in API mode with more than one row, sent for inference.
run_batch ==
    /\ pc = "loop"
    /\ IF idx >= Len(df_hospitals)
       THEN /\ pc' = "final"
            /\ UNCHANGED <<enriched_dir, cache_file, web_cache_file, checkpoint_file,
                           use_api, writable, cache, web_cache, checkpoint, medications,
                           valid_services, valid_equipment, df_hospitals,
                           rel_services, rel_equipment, rel_medications,
                           start_index, processed, idx, batch_idx, batch_results,
                           runs, log, sent, flushed>>
            /\ UNCHANGED <<nlocal, processed_dir, clocal, plocal>>
       ELSE IF use_api /\ Len(Batch) > 1
       THEN \E reply \in BatchReplies(Batch) :
              /\ sent' = sent \cup {Request("batch", Batch,
                                  ~reply.raises /\ reply.hospitals # <<>>)}
              /\ IF reply.raises
                 THEN Handler("crashed", df_hospitals, rel_services, rel_equipment,
                              rel_medications, cache, web_cache)
                 ELSE /\ batch_results' = reply.hospitals
                      /\ batch_idx' = 0
                      /\ pc' = "web"
                      /\ UNCHANGED <<enriched_dir, cache_file, web_cache_file,
                                     checkpoint_file, use_api, writable, cache, web_cache,
                                     checkpoint, medications, valid_services,
                                     valid_equipment, df_hospitals, rel_services,
                                     rel_equipment, rel_medications, start_index,
                                     processed, idx, runs, log, flushed>>
                      /\ UNCHANGED <<nlocal, processed_dir, clocal, plocal>>
       ELSE /\ batch_results' = <<>>
            /\ batch_idx' = 0
            /\ pc' = "web"
            /\ UNCHANGED <<enriched_dir, cache_file, web_cache_file, checkpoint_file,
                           use_api, writable, cache, web_cache, checkpoint, medications,
                           valid_services, valid_equipment, df_hospitals,
                           rel_services, rel_equipment, rel_medications,
                           start_index, processed, idx, runs, log, sent, flushed>>
            /\ UNCHANGED <<nlocal, processed_dir, clocal, plocal>>

\* The frame with row i (0-based) replaced.
SetRow(frame, i, row) == [frame EXCEPT ![i + 1] = row]

\* Step 1 of the inner loop: enrich_hospital_with_web_search on the row and the
\* write of its updates into the frame.
run_web ==
    /\ pc = "web"
    /\ LET row == df_hospitals[df_idx + 1]
           key == WebKey(row)
           quiet == UNCHANGED <<enriched_dir, cache_file, checkpoint_file, use_api, writable,
                                cache, checkpoint, medications, valid_services,
                                valid_equipment, rel_services, rel_equipment,
                                rel_medications, start_index, processed, idx,
                                batch_idx, batch_results, runs, log, flushed>>
                    /\ UNCHANGED <<nlocal, processed_dir, clocal, plocal>>
       IN  IF key \in DOMAIN web_cache
           THEN /\ df_hospitals' = SetRow(df_hospitals, df_idx,
                                          ApplyWebInfo(row, web_cache[key]))
                /\ pc' = "rel"
                /\ UNCHANGED <<web_cache, web_cache_file, sent>>
                /\ quiet
           ELSE IF ~use_api \/ skip_search(missing_fields(row))
           THEN /\ pc' = "rel"
                /\ UNCHANGED <<df_hospitals, web_cache, web_cache_file, sent>>
                /\ quiet
           ELSE \E reply \in WebReplies :
                  /\ sent' = sent \cup {Request("single", <<row>>, reply.kind = "object")}
                  /\ IF reply.kind = "none"
                     THEN /\ pc' = "rel"
                          /\ UNCHANGED <<df_hospitals, web_cache, web_cache_file>>
                          /\ quiet
                     ELSE IF reply.kind = "not_object"
                     THEN Handler("crashed", df_hospitals, rel_services, rel_equipment,
                                  rel_medications, cache, web_cache)
                     ELSE LET result == validate_hospital_info(reply.info)
                              wc == (key :> result) @@ web_cache
                          IN  IF result = NoInfo
                              THEN Handler("crashed", df_hospitals, rel_services,
                                           rel_equipment, rel_medications, cache, wc)
                              ELSE /\ web_cache' = wc
                                   /\ web_cache_file' =
                                        IF Cardinality(DOMAIN wc) % SaveEvery = 0
                                        THEN wc ELSE web_cache_file
                                   /\ df_hospitals' = SetRow(df_hospitals, df_idx,
                                                             ApplyWebInfo(row, result))
                                   /\ pc' = "rel"
                                   /\ quiet

\* The end of step 2 of the inner loop once (s_ids, e_ids, beds) are known and
\* the cache is c: the bed count is written when missing, the association
\* rows are appended and the medication stock is generated.
Relate(row, s_ids, e_ids, beds, c) ==
    LET cur == df_hospitals[df_idx + 1]
        dfh == IF MissingBeds(cur.beds)
               THEN SetRow(df_hospitals, df_idx, [cur EXCEPT !.beds = beds])
               ELSE df_hospitals
        rs == rel_services \o ServiceRows(row.id, s_ids)
        re == rel_equipment \o EquipmentRows(row.id, e_ids)
    IN  IF StockRaises
        THEN Handler("crashed", dfh, rs, re, rel_medications, c, web_cache)
        ELSE \E stock \in generate_medication_stock(row.id) :
               /\ df_hospitals' = dfh
               /\ rel_services' = rs
               /\ rel_equipment' = re
               /\ rel_medications' = rel_medications \o stock
               /\ cache' = c
               /\ pc' = "count"
               /\ UNCHANGED <<enriched_dir, cache_file, web_cache_file,
                              checkpoint_file, use_api, writable, web_cache, checkpoint,
                              medications, valid_services, valid_equipment,
                              start_index, processed, idx, batch_idx,
                              batch_results, runs, log, flushed>>
               /\ UNCHANGED <<nlocal, processed_dir, clocal, plocal>>

\* Step 2 of the inner loop: the counts of the batch answer at the row's
\* position, else process_hospital (the cache entry, else the heuristic).
run_relations ==
    /\ pc = "rel"
    /\ UNCHANGED sent
    /\ LET row == df_hospitals[df_idx + 1]
           key == CacheKey(row)
       IN  IF batch_results # <<>> /\ batch_idx < Len(batch_results)
           THEN LET br == batch_results[batch_idx + 1]
                IN  IF br.service_count < 0 \/ br.equipment_count < 0
                    THEN Handler("crashed", df_hospitals, rel_services,
                                 rel_equipment, rel_medications, cache, web_cache)
                    ELSE \E s_ids \in Sample(valid_services,
                               Min({br.service_count, Cardinality(valid_services)})),
                            e_ids \in Sample(valid_equipment,
                               Min({br.equipment_count, Cardinality(valid_equipment)})) :
                           Relate(row, s_ids, e_ids, br.beds,
                                  (key :> [s_ids |-> s_ids, e_ids |-> e_ids,
                                           beds |-> br.beds]) @@ cache)
           ELSE IF key \in DOMAIN cache
           THEN Relate(row, cache[key].s_ids, cache[key].e_ids,
                       cache[key].beds, cache)
           ELSE \E d \in Draws :
                  \E sim \in get_simulated_data(row.type, d) :
                    Relate(row, sim.s_ids, sim.e_ids, sim.beds,
                           (key :> sim) @@ cache)

SaveDue_Never(n) == FALSE

\* 'if processed % 20 == 0', with the interval SaveEvery.
SaveDue(n) == n % SaveEvery = 0

\* The end of the inner loop's body: the counter, the periodic save with its
\* checkpoint, and the move to the next row or the next batch.
run_count ==
    /\ pc = "count"
    /\ processed' = processed + 1
    /\ log' = Append(log, df_idx)
    /\ IF SaveDue(processed')
       THEN /\ enriched_dir' = save_progress(df_hospitals, rel_services,
                                             rel_equipment, rel_medications)
            /\ cache_file' = save_cache(cache_file, cache)
            /\ web_cache_file' = save_cache(web_cache_file, web_cache)
            /\ checkpoint_file' = [exists |-> TRUE, last_processed_index |-> df_idx]
       ELSE UNCHANGED <<enriched_dir, cache_file, web_cache_file, checkpoint_file>>
    /\ IF batch_idx + 1 < Len(Batch)
       THEN batch_idx' = batch_idx + 1 /\ pc' = "web" /\ UNCHANGED idx
       ELSE idx' = idx + Step /\ pc' = "loop" /\ UNCHANGED batch_idx
    /\ UNCHANGED <<use_api, writable, cache, web_cache, checkpoint, medications,
                   valid_services, valid_equipment, df_hospitals, rel_services,
                   rel_equipment, rel_medications, start_index, batch_results,
                   runs, sent, flushed>>
    /\ UNCHANGED <<nlocal, processed_dir, clocal, plocal>>

\* Ctrl-C anywhere in the loop: the KeyboardInterrupt clause of run.
KeyboardInterrupt ==
    /\ pc \in {"loop", "web", "rel", "count"}
    /\ Handler("interrupted", df_hospitals, rel_services, rel_equipment,
               rel_medications, cache, web_cache)
    /\ UNCHANGED sent

\* Mutant of run_finish: the checkpoint is left where it is.
run_finish_KeepsCheckpoint ==
    /\ pc = "final"
    /\ enriched_dir' = save_progress(df_hospitals, rel_services, rel_equipment,
                                     rel_medications)
    /\ cache_file' = save_cache(cache_file, cache)
    /\ web_cache_file' = save_cache(web_cache_file, web_cache)
    /\ ProcessExit
    /\ pc' = "done"
    /\ UNCHANGED <<checkpoint_file, start_index, runs, log, sent, flushed>>
    /\ UNCHANGED <<nlocal, processed_dir, clocal, plocal>>

\* After the loop: the final save_progress and the removal of the checkpoint;
\* the process ends.
run_finish ==
    /\ pc = "final"
    /\ enriched_dir' = save_progress(df_hospitals, rel_services, rel_equipment,
                                     rel_medications)
    /\ cache_file' = save_cache(cache_file, cache)
    /\ web_cache_file' = save_cache(web_cache_file, web_cache)
    /\ checkpoint_file' = NoCheckpoint
    /\ ProcessExit
    /\ pc' = "done"
    /\ UNCHANGED <<start_index, runs, log, sent, flushed>>
    /\ UNCHANGED <<nlocal, processed_dir, clocal, plocal>>

\* What a process leaves behind: the files, how it ended, and the requests of
\* its run that came back with parsed data (kind and hospital id).
Succeeded ==
    UNION { { <<r.kind, h.id>> : h \in r.hospitals } : r \in { q \in sent : q.ok } }

Disk ==
    [enriched_dir |-> enriched_dir, checkpoint_file |-> checkpoint_file,
     processed_dir |-> processed_dir, pc |-> pc, succeeded |-> Succeeded]

\* The script is launched again after a process has ended.
Restart ==
    /\ pc \in Stopped
    /\ runs < MaxRuns
    /\ flushed' = Disk
    /\ ProcessExit
    /\ start_index' = 0
    /\ log' = <<>>
    /\ sent' = {}
    /\ pc' = "off"
    /\ UNCHANGED <<enriched_dir, cache_file, web_cache_file, checkpoint_file, runs>>
    /\ UNCHANGED <<nlocal, processed_dir, clocal, plocal>>

\* After an enrichment that completed, the pipeline is run again from raw data
\* with one service fewer: services.csv loses its last row.
UpstreamRerun ==
    /\ pc = "off"
    /\ flushed.pc = "done"
    /\ Len(processed_dir.services) > 1
    /\ processed_dir' = [processed_dir EXCEPT
           !.services = SubSeq(@, 1, Len(@) - 1)]
    /\ UNCHANGED <<nlocal, elocal, clocal, plocal>>

(***************************************************************************)
(* Inputs of the Enricher: data/processed as a Canonicalizer run left it.  *)
(***************************************************************************)
\* Rows of services.csv and of equipment.csv.
NumServices == 2
NumEquipment == 1

Digit == <<"1","2","3","4","5","6","7","8","9">>

Addr == <<"a","v">>
Tel  == <<"0","1">>
Mail == <<"m","@","n",".","o">>
Site == <<"h","t","t","p",":","/","/","s">>

\* A row of hospitals.csv with the columns the Enricher reads, by the state
\* of its target fields: complete; only the website missing; a bed count of
\* 0; only the address and the phone known.
ERow(n, kind) ==
    [id      |-> n,
     name    |-> <<"h", Digit[n]>>,
     city    |-> Rabat,
     type    |-> IF kind = "full" THEN <<"C","H","U">>
                 ELSE <<"H","ô","p","i","t","a","l">>,
     address |-> Addr,
     phone   |-> Tel,
     email   |-> IF kind = "bare" THEN None ELSE Mail,
     website |-> IF kind \in {"bare", "noweb"} THEN None ELSE Site,
     beds    |-> IF kind = "bare" THEN NaN ELSE IF kind = "zero" THEN 0 ELSE 120]

KindCycle == <<"bare", "full", "zero", "noweb">>

\* The table of NumHosp rows whose kinds follow the cycle from position o.
HospitalTable(o) ==
    [n \in 1..NumHosp |-> ERow(n, KindCycle[((n + o - 2) % Len(KindCycle)) + 1])]

\* A canonical reference table of n rows with dense ids.
RefTable(n) == [k \in 1..n |-> [name |-> [i \in 1..k |-> "x"], extra |-> None, id |-> k]]

CanonicalDir(h, m) ==
    [EmptyProcessed EXCEPT !.hospitals = h, !.services = RefTable(NumServices),
                           !.equipment = RefTable(NumEquipment),
                           !.medications = m]

\* The directories the Enricher is run on: medications.csv just long enough
\* for a stock, too short for one, or missing.
CanonicalInputs ==
    { CanonicalDir(HospitalTable(1), RefTable(MinStock)),
      CanonicalDir(HospitalTable(1), RefTable(2)),
      CanonicalDir(HospitalTable(3), RefTable(0)) }

\* The Canonicalizer is not running.
NormalizerIdle ==
    /\ FUZZY_AVAILABLE = TRUE
    /\ raw_dir = RawDir(DefaultHospitals, FALSE, FALSE, <<>>, <<>>, <<>>, <<>>, <<>>)
    /\ sortOrder = <<>>
    /\ npc = "done"
    /\ nrun = 2
    /\ firstOut = EmptyProcessed
    /\ df = <<>>
    /\ to_remove = <<>>

Init ==
    /\ NormalizerIdle
    /\ processed_dir \in CanonicalInputs
    /\ EnricherIdle
    /\ requests_json_error = "RequestException"
    /\ ClientIdle
    /\ CallIdle

Next ==
    \/ Enricher_init
    \/ run_begin
    \/ run_batch
    \/ run_web
    \/ run_relations
    \/ run_count
    \/ KeyboardInterrupt
    \/ run_finish
    \/ Restart
    \/ UpstreamRerun

Spec == Init /\ [][Next]_vars

\* The canonical row of the hospital of id n (ids are the positions).
Canon(n) == processed_dir.hospitals[n]

\* C11: no request, single-hospital or batch, is sent for a hospital that has
\* an entry in the cache such requests fill; after a single-hospital request
\* that came back with parsed data the web cache, in memory or on disk, holds
\* the hospital's key; and every hospital the run has counted has an entry in
\* the cache of counts.
C11_CacheCheckedBeforeCall ==
    /\ \A r \in sent : \A h \in r.hospitals : ~h.cached
    /\ \A r \in sent : (r.kind = "single" /\ r.ok) =>
         \A h \in r.hospitals :
            \/ WebKey(Canon(h.id)) \in DOMAIN web_cache
            \/ WebKey(Canon(h.id)) \in DOMAIN web_cache_file
    /\ \A n \in DOMAIN log :
         \/ CacheKey(Canon(log[n] + 1)) \in DOMAIN cache
         \/ CacheKey(Canon(log[n] + 1)) \in DOMAIN cache_file

\* C12: when a process stops after its loop began, every key of its two
\* caches is in the cache files; the next process loads the two files as its
\* caches; and a process that runs on the same canonical tables as the one
\* before it sends no request (kind, hospital) that came back with parsed data
\* in that earlier run.
C12_CachePersistence ==
    [][ /\ (pc \notin Stopped /\ pc' \in Stopped \ {"returned"}) =>
             /\ DOMAIN cache \subseteq DOMAIN cache_file'
             /\ DOMAIN web_cache \subseteq DOMAIN web_cache_file'
        /\ (pc = "off" /\ pc' = "init") =>
             (cache' = cache_file /\ web_cache' = web_cache_file)
        /\ (flushed'.processed_dir = processed_dir') =>
             \A r \in sent' : \A h \in r.hospitals :
                <<r.kind, h.id>> \notin flushed'.succeeded ]_vars

\* C16: no step of search_hospital_info_with_llm (the process is at step 1 of
\* a row) or of infer_details_batch_llm (it is at the head of the loop) ends
\* with an exception that leaves run: whatever the inference service answers,
\* the two functions return.
C16_ClientNeverRaises ==
    [][ (pc \in {"loop", "web"}) => (pc' # "crashed") ]_vars

\* The step is a batch request that came back without parsed data.
BatchFailed ==
    \E r \in sent' : r \notin sent /\ r.kind = "batch" /\ ~r.ok

\* The row the inner loop is at.
Current == df_hospitals[df_idx + 1]

\* C17: a batch request that comes back without parsed data leaves the run in
\* its loop with no batch result, and every row of such a batch that step 2
\* handles gets a cache entry, a bed count and rows of services and equipment.
C17_BatchFailureFallsBack ==
    [][ /\ BatchFailed => (pc' = "web" /\ batch_results' = <<>>)
        /\ (pc = "rel" /\ use_api /\ Len(Batch) > 1 /\ batch_results = <<>>
              /\ pc' = "count") =>
             /\ CacheKey(Current) \in DOMAIN cache'
             /\ ~MissingBeds(df_hospitals'[df_idx + 1].beds)
             /\ \E n \in DOMAIN rel_services' :
                  rel_services'[n].hospital_id = Current.id
             /\ \E n \in DOMAIN rel_equipment' :
                  rel_equipment'[n].hospital_id = Current.id ]_vars

\* The frame index of the last row this run has fully processed, or the index
\* of the checkpoint it started from.
LastDone == IF log = <<>> THEN start_index - 1 ELSE log[Len(log)]

\* Frame indexes covered by a checkpoint at k or counted by this run.
Done(k) == (0..k) \cup Range(log)

\* C18: when Ctrl-C stops the run, the frame, the two caches and a checkpoint
\* at the last fully processed index are on disk, and the files hold field
\* updates and association rows only for rows that were fully processed.
C18_InterruptLeavesWholeEntities ==
    [][ (pc # "interrupted" /\ pc' = "interrupted" /\ writable) =>
          /\ enriched_dir'.hospitals = df_hospitals
          /\ cache_file' = cache
          /\ web_cache_file' = web_cache
          /\ checkpoint_file' = [exists |-> TRUE, last_processed_index |-> LastDone]
          /\ \A i \in 0..(Len(df_hospitals) - 1) :
               i \notin Done(start_index - 1) =>
                 /\ enriched_dir'.hospitals[i + 1] = Canon(i + 1)
                 /\ \A n \in DOMAIN enriched_dir'.hospital_services :
                      enriched_dir'.hospital_services[n].hospital_id # i + 1
                 /\ \A n \in DOMAIN enriched_dir'.hospital_equipment :
                      enriched_dir'.hospital_equipment[n].hospital_id # i + 1
                 /\ \A n \in DOMAIN enriched_dir'.hospital_medications :
                      enriched_dir'.hospital_medications[n].hospital_id # i + 1 ]_vars

C20_ResponsesNeverAbort ==
    [][ (pc # "crashed" /\ ~StockRaises) => (pc' # "crashed") ]_vars

(***************************************************************************)
(* The inference client: Enricher._call_llm_json, one requests.post per     *)
(* step of its while loop.                                                 *)
(***************************************************************************)
\* _call_llm_json calls of one process, and requests.post calls followed
\* within one call.
MaxCalls == 2
MaxAttempts == 13

\* Time that passes during one requests.post, or between two calls.
Elapsed == {0, 1}

ProviderErrors == {"400", "402", "503"}
TransportErrors == {"Timeout", "ConnectionError"}

\* What requests.post may yield: an HTTP response (its status and what its
\* body decodes to) or an exception of requests.
Responses ==
    { [status |-> "200", body |-> b] : b \in {"completion", "not_json", "no_choices"} }
    \cup { [status |-> st, body |-> b] :
             st \in ProviderErrors, b \in {"error_object", "not_json", "not_object"} }
    \cup { [status |-> st, body |-> "unread"] :
             st \in {"429", "500"} \cup TransportErrors }

\* The except clause that catches the error of response.json() on a body that
\* is not JSON.
JsonErrorBranch ==
    IF requests_json_error = "RequestException" THEN "RequestException"
    ELSE "Exception"

\* The branch of the loop body that handles a response: the four arms of the
\* if on status_code, or one of the three except clauses.
Branch(resp) ==
    IF resp.status = "200"
    THEN IF resp.body = "completion" THEN "success"
         ELSE IF resp.body = "not_json" THEN JsonErrorBranch
         ELSE "Exception"
    ELSE IF resp.status = "429" THEN "rate_limit"
    ELSE IF resp.status \in ProviderErrors
    THEN IF resp.body = "error_object" THEN "switch_model"
         ELSE IF resp.body = "not_json" THEN JsonErrorBranch
         ELSE "Exception"
    ELSE IF resp.status = "Timeout" THEN "Timeout"
    ELSE IF resp.status = "ConnectionError" THEN "RequestException"
    ELSE "http_error"

switch_model_Back(i) == (i + Len(models) - 1) % Len(models)

\* _switch_model.
switch_model(i) == (i + 1) % Len(models)

Rotates_OnRateLimit(branch) == branch \in {"switch_model", "rate_limit"}

\* The branches that call _switch_model and count the provider as tried.
Rotates(branch) == branch = "switch_model"

\* The branches that end with time.sleep(self.quick_retry_delay); continue.
Sleeps(branch) ==
    branch \in {"rate_limit", "http_error", "Timeout", "RequestException"}

\* _wait_for_rate_limit: the time it sleeps.
wait_for_rate_limit ==
    IF time_since_last_request < delay_between_requests
    THEN delay_between_requests - time_since_last_request
    ELSE 0

\* The time since the last request once t more has passed.
Later(since, t) == Min({since + t, delay_between_requests})

\* _call_llm_json is entered: without an API key it returns None at once.
call_begin ==
    /\ pc = "init"
    /\ cpc = "idle"
    /\ calls < MaxCalls
    /\ calls' = calls + 1
    /\ \E d \in Elapsed : time_since_last_request' = Later(time_since_last_request, d)
    /\ IF ~use_api
       THEN /\ outcome' = "None"
            /\ UNCHANGED <<models_tried, cpc, attempts, retries, last, abandoned>>
       ELSE /\ models_tried' = 0
            /\ abandoned' = {}
            /\ attempts' = 0
            /\ retries' = 0
            /\ last' = NoAttempt
            /\ outcome' = "pending"
            /\ cpc' = "loop"
    /\ UNCHANGED <<requests_json_error, current_model_index>>
    /\ UNCHANGED <<nlocal, processed_dir, elocal, plocal>>

\* One pass of 'while models_tried < len(self.models)': the wait, the post and
\* the handling of what comes back.
call_attempt ==
    /\ cpc = "loop"
    /\ models_tried < Len(models)
    /\ attempts < MaxAttempts
    /\ \E resp \in Responses, d \in Elapsed :
         LET waited == wait_for_rate_limit
             branch == Branch(resp)
             slept == IF Sleeps(branch) THEN quick_retry_delay ELSE 0
         IN  /\ time_since_last_request' = Later(0, d + slept)
             /\ attempts' = attempts + 1
             /\ last' = [model |-> current_model_index, status |-> resp.status,
                         body |-> resp.body, handled |-> branch,
                         waited |-> waited, slept |-> slept]
             /\ IF Rotates(branch)
                THEN /\ current_model_index' = switch_model(current_model_index)
                     /\ models_tried' = models_tried + 1
                     /\ retries' = 0
                     /\ abandoned' = abandoned \cup {current_model_index}
                ELSE /\ UNCHANGED <<current_model_index, models_tried, abandoned>>
                     /\ retries' = IF resp.status \in TransportErrors
                                   THEN retries + 1 ELSE retries
             /\ IF branch = "success"
                THEN outcome' = "content" /\ cpc' = "idle"
                ELSE IF branch = "Exception"
                THEN outcome' = "None" /\ cpc' = "idle"
                ELSE UNCHANGED <<outcome, cpc>>
    /\ UNCHANGED <<requests_json_error, calls>>
    /\ UNCHANGED <<nlocal, processed_dir, elocal, plocal>>

\* The loop ends because every provider has been tried: return None.
call_end ==
    /\ cpc = "loop"
    /\ models_tried >= Len(models)
    /\ outcome' = "None"
    /\ cpc' = "idle"
    /\ UNCHANGED <<requests_json_error, current_model_index,
                   time_since_last_request, models_tried, calls, attempts,
                   retries, last, abandoned>>
    /\ UNCHANGED <<nlocal, processed_dir, elocal, plocal>>

\* A process on a machine with either generation of the requests library.
ClientInit ==
    /\ NormalizerIdle
    /\ processed_dir \in CanonicalInputs
    /\ EnricherIdle
    /\ requests_json_error \in {"RequestException", "ValueError"}
    /\ ClientIdle
    /\ CallIdle

ClientNext ==
    \/ Enricher_init
    \/ call_begin
    \/ call_attempt
    \/ call_end

ClientSpec == ClientInit /\ [][ClientNext]_vars

(***************************************************************************)
(* _validate_hospital_info and clean_text applied on their own.            *)
(***************************************************************************)
\* Longest text handed to clean_text.
MaxTextLen == 5

\* The 'text' arguments: a missing value (None, NaN), every text of at most
\* MaxTextLen characters made of a blank and the letters of "nan" in both
\* cases, and the two longer sentinels bare and padded.
Texts ==
    {None}
    \cup UNION { [1..n -> {" ", "n", "a", "N"}] : n \in 0..MaxTextLen }
    \cup { <<"n","o","n","e">>, <<"N","o","n","e">>, <<" ","n","o","n","e">>,
           <<"n","u","l","l">>, <<"N","U","L","L">>, <<"n","u","l","l"," ">>,
           <<"a","\t","\t","b">>, <<"\n","a"," ","\t","b","\n">> }

\* The 'website' member of a parsed reply: JSON null, the empty string, and
\* texts with and without each of the prefixes the validator looks for.
Websites ==
    { None, <<>>,
      <<"h","t","t","p",":","/","/","x">>,
      <<"h","t","t","p","s",":","/","/","x">>,
      <<"w","w","w",".","x">>,
      <<"f","t","p",":","/","/","x">>,
      <<"h","t","t","p">>,
      <<"w","w","w">>,
      <<"W","w","w",".","x">>,
      <<"x",".","m","a">> }

\* The parsed replies handed to _validate_hospital_info.
Infos ==
    {NoInfo}
    \cup [address : {None, <<"r","u","e">>},
          phone   : {None, <<"0","5">>, <<"6","1">>},
          email   : {None, <<"a","@","b",".","c">>, <<"a","b">>},
          website : Websites,
          beds    : {NaN, 0, 400, 10000, 15000, -5}]

apply_validate_hospital_info ==
    /\ call.fn = "_validate_hospital_info"
    /\ ~call.returned
    /\ call' = [call EXCEPT !.ret = validate_hospital_info(call.arg),
                            !.returned = TRUE]
    /\ UNCHANGED <<nlocal, processed_dir, elocal, clocal>>

apply_clean_text ==
    /\ call.fn = "clean_text"
    /\ ~call.returned
    /\ call' = [call EXCEPT !.ret = clean_text(call.arg), !.returned = TRUE]
    /\ UNCHANGED <<nlocal, processed_dir, elocal, clocal>>

FunInit ==
    /\ NormalizerIdle
    /\ processed_dir = EmptyProcessed
    /\ EnricherIdle
    /\ requests_json_error = "RequestException"
    /\ ClientIdle
    /\ \E fn \in {"_validate_hospital_info", "clean_text"} :
          \E a \in (IF fn = "clean_text" THEN Texts ELSE Infos) :
             call = [fn |-> fn, arg |-> a, ret |-> None, returned |-> FALSE]

FunNext ==
    \/ apply_validate_hospital_info
    \/ apply_clean_text

FunSpec == FunInit /\ [][FunNext]_vars

(***************************************************************************)
(* Properties of the Enricher (checked under Spec).                        *)
(***************************************************************************)
TargetFields == TargetText \cup {"beds"}

\* The index left by the checkpoint the running (or last) process started from.
ResumedFrom == flushed.checkpoint_file.last_processed_index

\* The process resumed from a checkpoint at an index k >= 0, on the canonical
\* tables the stopped process had read.
Resumed ==
    /\ flushed.checkpoint_file.exists
    /\ ResumedFrom >= 0
    /\ flushed.processed_dir = processed_dir

\* The rows of an association table that belong to entities 0..k.
RowsUpTo(table, k) == { table[n] : n \in { m \in DOMAIN table : table[m].hospital_id <= k + 1 } }

\* C1: when a run that resumed from a checkpoint at index k has completed, the
\* output tables still hold what had been flushed for entities 0..k: their
\* rows of the three association tables and their facility rows.
C1_ResumeKeepsFlushedOutput ==
    (pc = "done" /\ Resumed) =>
        /\ RowsUpTo(flushed.enriched_dir.hospital_services, ResumedFrom)
             \subseteq Range(enriched_dir.hospital_services)
        /\ RowsUpTo(flushed.enriched_dir.hospital_equipment, ResumedFrom)
             \subseteq Range(enriched_dir.hospital_equipment)
        /\ RowsUpTo(flushed.enriched_dir.hospital_medications, ResumedFrom)
             \subseteq Range(enriched_dir.hospital_medications)
        /\ \A i \in 0..ResumedFrom :
             enriched_dir.hospitals[i + 1] = flushed.enriched_dir.hospitals[i + 1]

\* C2: a run that resumed from a checkpoint at index k and completed has
\* counted exactly the indexes k+1, ..., last, in order and once each.
C2_EachRemainingOnce ==
    (pc = "done" /\ Resumed) =>
        log = [n \in 1..(NumHosp - ResumedFrom - 1) |-> ResumedFrom + n]

\* A value the merge has to keep: non-null and, for the bed count, not 0.
Kept(f, v) == IF f = "beds" THEN ~MissingBeds(v) ELSE ~MissingText(v)

NonNull(f, v) == IF f = "beds" THEN v # NaN ELSE v # None

\* The frames that hold enriched facility rows: the one in memory and the one
\* in data/enriched.
Frames == {df_hospitals, enriched_dir.hospitals}

\* C3: a target field of a facility that is non-null (and, for the bed count,
\* not 0) in the canonical table has the same value in the enriched frame, in
\* memory and on disk, at every point of every run.
C3_MergeConservatism ==
    \A frame \in Frames : \A i \in DOMAIN frame : \A f \in TargetFields :
        Kept(f, processed_dir.hospitals[i][f])
            => frame[i][f] = processed_dir.hospitals[i][f]

\* C3 as stated: every non-null target field keeps its value.
C3_MergeConservatism_AsClaimed ==
    \A frame \in Frames : \A i \in DOMAIN frame : \A f \in TargetFields :
        NonNull(f, processed_dir.hospitals[i][f])
            => frame[i][f] = processed_dir.hospitals[i][f]

\* A facility whose phone is known has been offered another phone by the
\* inference service, and the same answer has filled its missing email.
C3_Witness ==
    \E i \in DOMAIN df_hospitals :
        LET row == df_hospitals[i]
            canon == processed_dir.hospitals[i]
        IN  /\ pc = "rel"
            /\ WebKey(row) \in DOMAIN web_cache
            /\ web_cache[WebKey(row)] # NoInfo
            /\ ~MissingText(canon.phone)
            /\ ~MissingText(web_cache[WebKey(row)].phone)
            /\ web_cache[WebKey(row)].phone # canon.phone
            /\ MissingText(canon.email)
            /\ row.email = web_cache[WebKey(row)].email
            /\ ~MissingText(row.email)

C9_AssociationIdsValid ==
    /\ \A n \in DOMAIN rel_services : rel_services[n].service_id \in valid_services
    /\ \A n \in DOMAIN rel_equipment : rel_equipment[n].equipment_id \in valid_equipment
    /\ \A n \in DOMAIN rel_medications : rel_medications[n].medication_id \in medications

(***************************************************************************)
(* Properties of the inference client (checked under ClientSpec).          *)
(***************************************************************************)
\* A step that is one requests.post answered with a status of S.
Answered(S) == attempts' = attempts + 1 /\ last'.status \in S

\* C13: a response with status 400, 402 or 503 makes _call_llm_json rotate to
\* the next provider of the list; the rotations of one call never exceed the
\* number of providers; and once every provider has been tried the call
\* returns None without another requests.post.
C13_RotationOnProviderError ==
    [][ /\ Answered(ProviderErrors) =>
             /\ current_model_index' = switch_model(current_model_index)
             /\ models_tried' = models_tried + 1
        /\ models_tried' <= Len(models)
        /\ (cpc = "loop" /\ models_tried = Len(models)) =>
             (attempts' = attempts /\ cpc' = "idle" /\ outcome' = "None") ]_vars

\* C14: a response with status 429 leaves the current provider index and the
\* count of providers tried unchanged, is followed by a sleep of
\* quick_retry_delay, and the loop goes on: the next requests.post of the call
\* goes to the same provider.
C14_RateLimitKeepsProvider ==
    [][ /\ Answered({"429"}) =>
             /\ current_model_index' = current_model_index
             /\ models_tried' = models_tried
             /\ last'.slept = quick_retry_delay
             /\ cpc' = "loop"
        /\ (attempts' = attempts + 1 /\ attempts > 0 /\ last.status = "429") =>
             last'.model = last.model ]_vars

\* After a rotation, the second provider has answered 429 and the call is
\* still at it, with one provider counted as tried.
C14_Witness ==
    /\ cpc = "loop"
    /\ last.status = "429"
    /\ last.model = 1
    /\ current_model_index = 1
    /\ models_tried = 1
    /\ attempts >= 3

\* C15: within one call, at most max_retries requests.post go to a provider
\* after a timeout or a connection failure on it.
C15_BoundedTransportRetries == retries <= max_retries

\* C25: every requests.post of a call goes to the current provider; when the
\* current provider changes it becomes the next one of the list, the first one
\* after the last; and no requests.post goes to a provider the call has
\* rotated away from.
C25_ProviderOrder ==
    [][ /\ (attempts' = attempts + 1) =>
             /\ last'.model = current_model_index
             /\ last'.model \notin abandoned
        /\ (current_model_index' # current_model_index) =>
             /\ current_model_index < Len(models) - 1
                  => current_model_index' = current_model_index + 1
             /\ current_model_index = Len(models) - 1
                  => current_model_index' = 0 ]_vars

\* A second call that began at the last provider has wrapped to the first one
\* and on to the second, which has answered.
C25_Witness ==
    /\ calls = 2
    /\ abandoned = {Len(models) - 1, 0}
    /\ last.model = 1
    /\ attempts = 3

\* C26: within one call the number of requests.post never exceeds what the
\* provider count and the maximum retry count allow, one first attempt and
\* max_retries retries per provider, whatever the providers answer.
C26_BoundedAttempts == attempts <= Len(models) * (1 + max_retries)

(***************************************************************************)
(* Further properties of the Enricher (checked under Spec).                *)
(***************************************************************************)
\* C22: the bed count of a facility record, in memory and on disk, is the one
\* of the canonical table or an integer in [0, 10000]: no bed count returned
\* by the inference service outside that range is ever stored.
C22_BedCountValidation ==
    \A frame \in Frames : \A i \in DOMAIN frame :
        \/ frame[i].beds = processed_dir.hospitals[i].beds
        \/ frame[i].beds \in 0..10000

\* The rows this run has counted that lie beyond the checkpoint on disk.
Uncovered ==
    { n \in DOMAIN log : log[n] > checkpoint_file.last_processed_index }

\* C23: each time the counter 'processed' reaches a multiple of the interval,
\* run writes the frame and the collected association rows (as long as the
\* write does not fail) and then a checkpoint at the index of the row just
\* counted; at every moment of a run, resumed or not, at most one interval of
\* counted rows lies beyond the checkpoint on disk.
C23_PeriodicCheckpoint ==
    /\ [](pc \in {"loop", "web", "rel", "count", "final"}
            => Cardinality(Uncovered) <= SaveEvery)
    /\ [][ (pc = "count" /\ pc' \in {"web", "loop"}
             /\ (processed + 1) % SaveEvery = 0) =>
             /\ checkpoint_file' =
                  [exists |-> TRUE, last_processed_index |-> log'[Len(log')]]
             /\ log'[Len(log')] = df_idx
             /\ writable =>
                  /\ enriched_dir'.hospitals = df_hospitals
                  /\ rel_services # <<>> =>
                       enriched_dir'.hospital_services = rel_services
                  /\ rel_equipment # <<>> =>
                       enriched_dir'.hospital_equipment = rel_equipment
                  /\ rel_medications # <<>> =>
                       enriched_dir'.hospital_medications = rel_medications ]_vars

\* A run resumed from an index that is not a multiple of the interval has
\* just made a periodic save: tables and checkpoint are at the row counted.
C23_Witness ==
    /\ pc \in {"web", "loop"}
    /\ start_index % SaveEvery # 0
    /\ log # <<>>
    /\ processed % SaveEvery = 0
    /\ checkpoint_file = [exists |-> TRUE, last_processed_index |-> log[Len(log)]]
    /\ writable
    /\ enriched_dir.hospitals = df_hospitals
    /\ enriched_dir.hospital_services = rel_services
    /\ rel_services # <<>>

\* C24: when step 2 gives a row of a batch the counts of the batch answer, the
\* bed count it stores for the row is the one of the answer's entry whose id
\* is the row's id, in whatever order the answer lists its entries.
C24_PerIdBatchResults ==
    [][ (pc = "rel" /\ pc' = "count" /\ batch_results # <<>>
          /\ batch_idx < Len(batch_results)) =>
          \E e \in Range(batch_results) :
              /\ e.id = Current.id
              /\ cache'[CacheKey(Current)].beds = e.beds ]_vars

\* The batch answer has an entry at the row's position with a negative count
\* (random.sample then raises, whatever the medication table is).
NegativeCount ==
    /\ batch_results # <<>>
    /\ batch_idx < Len(batch_results)
    /\ \/ batch_results[batch_idx + 1].service_count < 0
       \/ batch_results[batch_idx + 1].equipment_count < 0

\* C27: with a medication table that is not empty, of whatever size, step 2
\* of a row (when it is not interrupted and the counts it was given are not
\* negative) ends with the row's medication records appended: records of the
\* row's hospital, for distinct medication ids of the table, at most
\* min(MaxStock, size of the table) of them; it never fails.
C27_MedicationStock ==
    [][ (pc = "rel" /\ medications # {} /\ ~NegativeCount
          /\ pc' # "interrupted") =>
          /\ pc' = "count"
          /\ Len(rel_medications') >= Len(rel_medications)
          /\ LET new == SubSeq(rel_medications', Len(rel_medications) + 1,
                               Len(rel_medications'))
             IN  /\ Len(new) <= Min({MaxStock, Cardinality(medications)})
                 /\ \A n \in DOMAIN new :
                      /\ new[n].hospital_id = Current.id
                      /\ new[n].medication_id \in medications
                 /\ \A m, n \in DOMAIN new :
                      new[m].medication_id = new[n].medication_id => m = n ]_vars

\* C29: a step that advances the checkpoint on disk is a step in which
\* save_progress wrote the tables, and the frame on disk then holds, as in
\* memory, every row this run has counted up to the checkpoint's index.
C29_CheckpointNotAhead ==
    [][ (checkpoint_file'.exists
          /\ checkpoint_file'.last_processed_index
                > checkpoint_file.last_processed_index) =>
          /\ writable
          /\ \A n \in DOMAIN log' :
               log'[n] <= checkpoint_file'.last_processed_index =>
                 /\ log'[n] < Len(enriched_dir'.hospitals)
                 /\ enriched_dir'.hospitals[log'[n] + 1] = df_hospitals[log'[n] + 1] ]_vars

Validated == call.fn = "_validate_hospital_info" /\ call.returned /\ call.arg # NoInfo

HttpScheme(w) ==
    \/ StartsWith(w, <<"h","t","t","p",":","/","/">>)
    \/ StartsWith(w, <<"h","t","t","p","s",":","/","/">>)

\* The website rule as stated: kept with a scheme, completed after "www.",
\* null otherwise.
WebsiteRule(w) ==
    IF HttpScheme(w) THEN w
    ELSE IF StartsWith(w, <<"w","w","w",".">>)
         THEN <<"h","t","t","p","s",":","/","/">> \o w
         ELSE None

\* The reply's other fields come out as they do whatever its website is.
WebsiteRuleLeavesOthers ==
    /\ call.ret.address = call.arg.address
    /\ \A w \in Websites :
          LET other == validate_hospital_info([call.arg EXCEPT !.website = w])
          IN  \A f \in {"address", "phone", "email", "beds"} : other[f] = call.ret[f]

\* C21 as stated: every website value of a reply, the empty string included,
\* is kept when it begins with http:// or https://, prefixed with https://
\* when it begins with "www.", and null in every other case.
C21_Original ==
    (Validated /\ call.arg.website # None)
        => /\ call.ret.website = WebsiteRule(call.arg.website)
           /\ WebsiteRuleLeavesOthers

\* C21: a non-empty website value of a reply is kept when it begins with
\* http:// or https://, becomes "https://" + value when it begins with "www.",
\* and is null in every other case; an empty value is left as it is; the
\* other fields of the reply come out the same whatever the website is.
C21_WebsiteValidation ==
    Validated =>
        /\ ~MissingText(call.arg.website)
              => call.ret.website = WebsiteRule(call.arg.website)
        /\ MissingText(call.arg.website) => call.ret.website = call.arg.website
        /\ WebsiteRuleLeavesOthers

C21_Witness ==
    /\ Validated
    /\ call.arg.website = <<"w","w","w",".","x">>
    /\ call.ret.website = <<"h","t","t","p","s",":","/","/","w","w","w",".","x">>
    /\ call.arg.phone = <<"6","1">>
    /\ call.ret.phone = None

Cleaned == call.fn = "clean_text" /\ call.returned

\* C28: what clean_text returns is null, or a text that is not empty, has no
\* whitespace at either end, no two whitespace characters in a row, is not
\* "nan", "none" or "null" in any letter case, and that clean_text maps to
\* itself.
C28_CleanText ==
    Cleaned =>
        \/ call.ret = None
        \/ /\ call.ret # <<>>
           /\ ~IsSpace(call.ret[1])
           /\ ~IsSpace(call.ret[Len(call.ret)])
           /\ \A n \in 1..(Len(call.ret) - 1) :
                ~(IsSpace(call.ret[n]) /\ IsSpace(call.ret[n + 1]))
           /\ LowerStr(call.ret) \notin NullSentinels
           /\ clean_text(call.ret) = call.ret

====
